---- MODULE Spec2Model ----
(***************************************************************************)
(* Model of src/extract_pdfs.py (class AEOGitHubPDFExtractor).             *)
(*                                                                         *)
(* Python strings are modelled as sequences of one-character strings, so   *)
(* that substring search, case folding, regular-expression substitution    *)
(* and stripping are computed character by character as the code does.     *)
(***************************************************************************)
EXTENDS Integers, Sequences, FiniteSets

VARIABLES
    \* ---- extract_all_documents (the run) ----
    use_auto_discover,  \* argument of extract_all_documents
    pc,                 \* position of the run inside extract_all_documents
    api,                \* what the tree-listing request did: "not_called", "network_error", "parse_error", "ok"
    discover_calls,     \* number of calls of auto_discover_pdfs
    discovered,         \* value returned by auto_discover_pdfs
    pdf_files,          \* local pdf_files of extract_all_documents
    idx,                \* loop index of `for idx, pdf_info in enumerate(pdf_files, 1)`
    extraction_result,  \* local extraction_result of the current iteration
    extracted_data,     \* self.extracted_data
    document_metadata,  \* self.document_metadata
    row_doc,            \* history: for each row of extracted_data, the loop index that appended it
    outcome,            \* history: how the iteration of each document ended
    open_docs,          \* fitz documents opened and not closed
    text_corpus,        \* files under text_corpus_dir: set of [name, owner, complete]
    save_calls,         \* number of calls of save_outputs
    outputs,            \* the three files save_outputs writes
    \* ---- clean_text applied repeatedly to one string ----
    text_raw, text_prev, text_out, clean_calls,
    \* ---- classify_document_type applied to one filename ----
    parts, filename, label

runVars   == <<use_auto_discover, pc, api, discover_calls, discovered, pdf_files, idx,
               extraction_result, extracted_data, document_metadata, row_doc, outcome,
               open_docs, text_corpus, save_calls, outputs>>
cleanVars == <<text_raw, text_prev, text_out, clean_calls>>
classVars == <<parts, filename, label>>
vars      == <<runVars, cleanVars, classVars>>

(***************************************************************************)
(* Bounds of the model.                                                    *)
(***************************************************************************)
MaxTree   == 2   \* entries of the remote tree listing
MaxPages  == 2   \* pages of one PDF
MaxYears  == 1   \* years of file_mappings that are modelled, starting at FirstYear
MaxLen    == 5   \* length of the strings given to clean_text
MaxParts  == 2   \* pieces a classified filename is built from

(***************************************************************************)
(* Strings.                                                                *)
(***************************************************************************)
UpperChars == <<"A","B","C","D","E","F","G","H","I","J","K","L","M",
                "N","O","P","Q","R","S","T","U","V","W","X","Y","Z">>
LowerChars == <<"a","b","c","d","e","f","g","h","i","j","k","l","m",
                "n","o","p","q","r","s","t","u","v","w","x","y","z">>
DigitChars == <<"0","1","2","3","4","5","6","7","8","9">>

Range(s) == {s[i] : i \in 1..Len(s)}

\* str.lower() on one character
LowerChar(c) ==
    IF \E i \in 1..26 : UpperChars[i] = c
    THEN LowerChars[CHOOSE i \in 1..26 : UpperChars[i] = c]
    ELSE c

\* str.lower()
Lower(s) == [i \in 1..Len(s) |-> LowerChar(s[i])]

\* `sub in s`
Contains(sub, s) ==
    \E i \in 0..(Len(s) - Len(sub)) : SubSeq(s, i + 1, i + Len(sub)) = sub

\* s.endswith(suffix)
EndsWith(s, suffix) ==
    /\ Len(s) >= Len(suffix)
    /\ SubSeq(s, Len(s) - Len(suffix) + 1, Len(s)) = suffix

\* str.replace(old, new): leftmost, non-overlapping occurrences, old non-empty
RECURSIVE Replace(_, _, _)
Replace(s, old, new) ==
    IF Len(s) < Len(old) THEN s
    ELSE IF SubSeq(s, 1, Len(old)) = old
         THEN new \o Replace(SubSeq(s, Len(old) + 1, Len(s)), old, new)
         ELSE <<s[1]>> \o Replace(Tail(s), old, new)

IsDigit(c) == c \in Range(DigitChars)
DigitVal(c) == (CHOOSE i \in 1..10 : DigitChars[i] = c) - 1

\* str(n) for n >= 0 (f-string formatting of an int)
RECURSIVE IntToStr(_)
IntToStr(n) ==
    IF n < 10 THEN <<DigitChars[n + 1]>>
    ELSE IntToStr(n \div 10) \o <<DigitChars[(n % 10) + 1]>>

\* the characters \s matches and str.strip() removes, among those of the model
IsSpace(c) == c \in {" ", "\n", "\t"}

(***************************************************************************)
(* clean_text (lines 173-177).                                             *)
(***************************************************************************)
\* the ends j of the matches of \n\s*\n that start at s[1]
BlankEnds(s) ==
    {j \in 2..Len(s) : /\ s[1] = "\n"
                       /\ s[j] = "\n"
                       /\ \A k \in 2..(j - 1) : IsSpace(s[k])}

Max(S) == CHOOSE x \in S : \A y \in S : y <= x

\* re.sub(r'\n\s*\n', '\n\n', text): leftmost matches, \s* greedy
RECURSIVE SubBlankLines(_)
SubBlankLines(s) ==
    IF s = <<>> THEN <<>>
    ELSE IF BlankEnds(s) # {}
         THEN <<"\n", "\n">> \o SubBlankLines(SubSeq(s, Max(BlankEnds(s)) + 1, Len(s)))
         ELSE <<s[1]>> \o SubBlankLines(Tail(s))

RECURSIVE DropSpaces(_)
DropSpaces(s) == IF s # <<>> /\ s[1] = " " THEN DropSpaces(Tail(s)) ELSE s

\* text.replace('  ', ' '): each pair of spaces becomes one space
SubSpacesPairwise(s) == Replace(s, <<" ", " ">>, <<" ">>)

\* re.sub(r' +', ' ', text)
RECURSIVE SubSpaces(_)
SubSpaces(s) ==
    IF s = <<>> THEN <<>>
    ELSE IF s[1] = " " THEN <<" ">> \o SubSpaces(DropSpaces(s))
         ELSE <<s[1]>> \o SubSpaces(Tail(s))

\* str.strip()
RECURSIVE LStrip(_)
LStrip(s) == IF s # <<>> /\ IsSpace(s[1]) THEN LStrip(Tail(s)) ELSE s
RECURSIVE RStrip(_)
RStrip(s) == IF s # <<>> /\ IsSpace(s[Len(s)]) THEN RStrip(SubSeq(s, 1, Len(s) - 1)) ELSE s
Strip(s) == RStrip(LStrip(s))

\* a slip: pairs of spaces replaced once instead of runs of spaces collapsed
clean_text_pairwise(text) == Strip(SubSpacesPairwise(SubBlankLines(text)))

clean_text(text) == Strip(SubSpaces(SubBlankLines(text)))

\* len(text.split()): the maximal runs of non-whitespace characters
WordCount(s) ==
    Cardinality({i \in 1..Len(s) : ~IsSpace(s[i]) /\ (i = 1 \/ IsSpace(s[i - 1]))})

(***************************************************************************)
(* classify_document_type (lines 121-136).                                 *)
(***************************************************************************)
kwImpact         == <<"i","m","p","a","c","t">>
kwSustainability == <<"s","u","s","t","a","i","n","a","b","i","l","i","t","y">>
kwEsg            == <<"e","s","g">>
kwAssurance      == <<"a","s","s","u","r","a","n","c","e">>
kwProxy          == <<"p","r","o","x","y">>
kw10k            == <<"1","0","k">>
kw10dashk        == <<"1","0","-","k">>
kwCarbon         == <<"c","a","r","b","o","n">>

\* a slip: the test for 'assurance' placed before the test for the impact keywords
classify_assurance_first(name) ==
    LET filename_lower == Lower(name) IN
    IF Contains(kwAssurance, filename_lower) THEN "Assurance Statement"
    ELSE IF \/ Contains(kwImpact, filename_lower)
            \/ Contains(kwSustainability, filename_lower)
            \/ Contains(kwEsg, filename_lower) THEN "Impact Report"
    ELSE IF Contains(kwProxy, filename_lower) THEN "Proxy Statement"
    ELSE IF \/ Contains(kw10k, filename_lower)
            \/ Contains(kw10dashk, filename_lower) THEN "Form 10-K"
    ELSE IF Contains(kwCarbon, filename_lower) THEN "Carbon Disclosure"
    ELSE "Other"

classify_document_type(name) ==
    LET filename_lower == Lower(name) IN
    IF \/ Contains(kwImpact, filename_lower)
       \/ Contains(kwSustainability, filename_lower)
       \/ Contains(kwEsg, filename_lower) THEN "Impact Report"
    ELSE IF Contains(kwAssurance, filename_lower) THEN "Assurance Statement"
    ELSE IF Contains(kwProxy, filename_lower) THEN "Proxy Statement"
    ELSE IF \/ Contains(kw10k, filename_lower)
            \/ Contains(kw10dashk, filename_lower) THEN "Form 10-K"
    ELSE IF Contains(kwCarbon, filename_lower) THEN "Carbon Disclosure"
    ELSE "Other"

(***************************************************************************)
(* The Locator: define_pdf_files_structure1 and auto_discover_pdfs.        *)
(***************************************************************************)
FirstYear   == 2020
LastYear    == 2024
DefaultYear == 2024

Min2(a, b) == IF a < b THEN a ELSE b

Descriptor(year, name, path) ==
    [year |-> year, filename |-> name, path |-> path,
     doc_type |-> classify_document_type(name)]

\* file_mappings[year]
FileMapping(year) ==
    << <<"A","E","O","_">> \o IntToStr(year) \o <<"_","I","m","p","a","c","t","_","R","e","p","o","r","t",".","p","d","f">>,
       <<"A","E","O","_">> \o IntToStr(year) \o <<"_","1","0","K",".","p","d","f">> >>

\* the descriptors of one year: path is f'AEO_{year}/{filename}'
YearDescriptors(year) ==
    [k \in 1..Len(FileMapping(year)) |->
        Descriptor(year, FileMapping(year)[k],
                   <<"A","E","O","_">> \o IntToStr(year) \o <<"/">> \o FileMapping(year)[k])]

RECURSIVE Structure1From(_)
Structure1From(year) ==
    IF year > Min2(LastYear, FirstYear + MaxYears - 1) THEN <<>>
    ELSE YearDescriptors(year) \o Structure1From(year + 1)

\* file_mappings has the years FirstYear..LastYear; the model takes the
\* first MaxYears of them
define_pdf_files_structure1 == Structure1From(FirstYear)

\* re.search(r'20\d{2}', path): the start of the first match, 0 if none
YearMatch(path) ==
    LET starts == {i \in 1..(Len(path) - 3) :
                      /\ path[i] = "2" /\ path[i + 1] = "0"
                      /\ IsDigit(path[i + 2]) /\ IsDigit(path[i + 3])}
    IN IF starts = {} THEN 0 ELSE CHOOSE i \in starts : \A j \in starts : i <= j

\* int(year_match.group()) if year_match else 2024
YearOf(path) ==
    IF YearMatch(path) = 0 THEN DefaultYear
    ELSE LET i == YearMatch(path)
         IN 1000 * DigitVal(path[i]) + 100 * DigitVal(path[i + 1])
              + 10 * DigitVal(path[i + 2]) + DigitVal(path[i + 3])

\* os.path.basename(path)
Basename(path) ==
    LET slashes == {i \in 1..Len(path) : path[i] = "/"}
    IN IF slashes = {} THEN path ELSE SubSeq(path, Max(slashes) + 1, Len(path))

\* path.lower().endswith('.pdf')
IsPdfPath(path) == EndsWith(Lower(path), <<".","p","d","f">>)

\* the loop over the tree of a listing that was received and parsed
RECURSIVE DiscoverTree(_)
DiscoverTree(tree) ==
    IF tree = <<>> THEN <<>>
    ELSE (IF IsPdfPath(tree[1])
          THEN <<Descriptor(YearOf(tree[1]), Basename(tree[1]), tree[1])>>
          ELSE <<>>) \o DiscoverTree(Tail(tree))

\* auto_discover_pdfs: `except Exception` turns every failure into []
auto_discover_pdfs(status, tree) ==
    IF status = "ok" THEN DiscoverTree(tree) ELSE <<>>

\* a slip: no fallback to the manual list when discovery returns nothing
SelectFilesNoFallback(use_auto, found) ==
    IF use_auto THEN found ELSE define_pdf_files_structure1

\* lines 189-196: the list the run processes
SelectFiles(use_auto, found) ==
    IF use_auto
    THEN (IF found = <<>> THEN define_pdf_files_structure1 ELSE found)
    ELSE define_pdf_files_structure1

\* paths a remote tree listing can hold, in the order the listing gives them
TreeUniverse ==
    << <<"R","E","A","D","M","E",".","m","d">>,
       <<"a","/","2","0","2","1","r",".","p","d","f">>,
       <<"b","/","2","0","2","1","r",".","p","d","f">>,
       <<"x"," ","y",".","P","D","F">>,
       <<"x",".","p","d","f",".","p","d","f">> >>

RECURSIVE Pick(_, _)
Pick(S, i) ==
    IF i > Len(TreeUniverse) THEN <<>>
    ELSE (IF i \in S THEN <<TreeUniverse[i]>> ELSE <<>>) \o Pick(S, i + 1)

\* the tree listings of at most MaxTree entries
Trees ==
    {Pick(S, 1) : S \in {T \in SUBSET (1..Len(TreeUniverse)) : Cardinality(T) <= MaxTree}}

(***************************************************************************)
(* extract_text_from_pdf, save_text_corpus, build_dataset_records and      *)
(* save_outputs.                                                           *)
(***************************************************************************)
\* page.get_text() of page p (1-based) of a remote PDF
RawPage(p) ==
    IF p % 2 = 1 THEN <<" ","H","e","l","l","o"," "," ","\n","\n","\n"," ","A","E","O"," ","\n">> ELSE <<"Q">>

\* a slip: the 0-based loop variable used as the page number
PageRecordZeroBased(page_num, raw) ==
    LET text == clean_text(raw) IN
    [page_number |-> page_num, text |-> text,
     char_count |-> Len(text), word_count |-> WordCount(text)]

\* one entry of pages_data (lines 155-163)
PageRecord(page_num, raw) ==
    LET text == clean_text(raw) IN
    [page_number |-> page_num + 1, text |-> text,
     char_count |-> Len(text), word_count |-> WordCount(text)]

\* the value extract_text_from_pdf returns for a document of n pages
ExtractionResult(n) ==
    LET pages_data == [p \in 1..n |-> PageRecord(p - 1, RawPage(p))] IN
    [success |-> TRUE, total_pages |-> Len(pages_data), pages |-> pages_data]

\* the record appended to document_metadata (lines 211-217)
MetadataRecord(pdf_info, result) ==
    [year |-> pdf_info.year, filename |-> pdf_info.filename,
     doc_type |-> pdf_info.doc_type, total_pages |-> result.total_pages,
     github_path |-> pdf_info.path]

SafeChars == Range(UpperChars) \cup Range(LowerChars) \cup Range(DigitChars) \cup {"_", "-"}

\* re.sub(r'[^a-zA-Z0-9_-]', '_', s)
SubUnsafe(s) == [i \in 1..Len(s) |-> IF s[i] \in SafeChars THEN s[i] ELSE "_"]

\* safe_filename of save_text_corpus
SafeFilename(name) == SubUnsafe(Replace(name, <<".","p","d","f">>, <<>>))

\* the file name of output_path in save_text_corpus
CorpusName(pdf_info) ==
    IntToStr(pdf_info.year) \o <<"_">> \o SafeFilename(pdf_info.filename) \o <<"_","f","u","l","l","t","e","x","t",".","t","x","t">>

\* the rows build_dataset_records appends
DatasetRows(pdf_info, result) ==
    [p \in 1..Len(result.pages) |->
        [year |-> pdf_info.year, document_type |-> pdf_info.doc_type,
         filename |-> pdf_info.filename,
         page_number |-> result.pages[p].page_number,
         text |-> result.pages[p].text,
         word_count |-> result.pages[p].word_count,
         char_count |-> result.pages[p].char_count]]

RECURSIVE SumPages(_)
SumPages(meta) == IF meta = <<>> THEN 0 ELSE meta[1].total_pages + SumPages(Tail(meta))

RECURSIVE SortedSeq(_)
SortedSeq(S) ==
    IF S = {} THEN <<>>
    ELSE LET m == CHOOSE x \in S : \A y \in S : x <= y
         IN <<m>> \o SortedSeq(S \ {m})

\* the docs of one year, in the order of document_metadata
RECURSIVE YearDocs(_, _)
YearDocs(meta, year) ==
    IF meta = <<>> THEN <<>>
    ELSE (IF meta[1].year = year THEN <<meta[1]>> ELSE <<>>) \o YearDocs(Tail(meta), year)

\* what create_summary_report writes for a non-empty document_metadata
SummaryReport(meta) ==
    LET years == SortedSeq({meta[i].year : i \in 1..Len(meta)}) IN
    [by_year |-> [k \in 1..Len(years) |->
                    LET year_docs == YearDocs(meta, years[k]) IN
                    [year |-> years[k], documents |-> Len(year_docs),
                     pages |-> SumPages(year_docs),
                     lines |-> [d \in 1..Len(year_docs) |->
                                  <<year_docs[d].doc_type, year_docs[d].total_pages>>]]],
     total_documents |-> Len(meta),
     total_pages |-> SumPages(meta)]

(***************************************************************************)
(* extract_all_documents: one run.                                         *)
(***************************************************************************)
NoResult == [success |-> FALSE, total_pages |-> 0, pages |-> <<>>]

\* the for loop of line 201 going on to the next document, or past the last
Advance(i, n) == [pc |-> IF i < n THEN "download" ELSE "save", idx |-> i + 1]

\* a slip: no try/except around the per-document step, the exception ends the run
OnExceptionAbort(i, n) == [pc |-> "crashed", idx |-> i]

\* lines 222-225: the exception is printed and the loop goes on
OnException(i, n) == Advance(i, n)

\* open(output_path, 'w') and the writes to it: the file replaces one of the same name
WriteFile(fs, name, owner, complete) ==
    {f \in fs : f.name # name} \cup {[name |-> name, owner |-> owner, complete |-> complete]}

IdleClean == /\ text_raw = <<>> /\ text_prev = <<>> /\ text_out = <<>> /\ clean_calls = 0
IdleClass == /\ parts = <<>> /\ filename = <<>> /\ label = ""
IdleRun ==
    /\ use_auto_discover = FALSE
    /\ pc = "idle"
    /\ api = "not_called"
    /\ discover_calls = 0
    /\ discovered = <<>>
    /\ pdf_files = <<>>
    /\ idx = 0
    /\ extraction_result = NoResult
    /\ extracted_data = <<>>
    /\ document_metadata = <<>>
    /\ row_doc = <<>>
    /\ outcome = <<>>
    /\ open_docs = 0
    /\ text_corpus = {}
    /\ save_calls = 0
    /\ outputs = [written |-> {}, csv |-> <<>>, json |-> <<>>, summary |-> <<>>]

\* __init__ (lines 29-40) and the call of extract_all_documents
Init ==
    /\ use_auto_discover \in BOOLEAN
    /\ pc = "start"
    /\ api = "not_called"
    /\ discover_calls = 0
    /\ discovered = <<>>
    /\ pdf_files = <<>>
    /\ idx = 0
    /\ extraction_result = NoResult
    /\ extracted_data = <<>>
    /\ document_metadata = <<>>
    /\ row_doc = <<>>
    /\ outcome = <<>>
    /\ open_docs = 0
    /\ text_corpus = {}
    /\ save_calls = 0
    /\ outputs = [written |-> {}, csv |-> <<>>, json |-> <<>>, summary |-> <<>>]
    /\ IdleClean
    /\ IdleClass

\* the loop of line 201 starts on the list that was chosen
StartLoop(files) ==
    /\ pdf_files' = files
    /\ outcome' = [i \in 1..Len(files) |-> "pending"]
    /\ idx' = 1
    /\ pc' = IF files = <<>> THEN "save" ELSE "download"
    /\ UNCHANGED <<use_auto_discover, extraction_result, extracted_data, document_metadata,
                   row_doc, open_docs, text_corpus, save_calls, outputs>>

\* lines 189-193 with use_auto_discover: the listing is requested and answers
\* with a tree, or the request or the reading of the answer fails
LocateAuto ==
    /\ pc = "start"
    /\ use_auto_discover
    /\ \E status \in {"ok", "network_error", "parse_error"} :
         \E tree \in (IF status = "ok" THEN Trees ELSE {<<>>}) :
            /\ api' = status
            /\ discover_calls' = discover_calls + 1
            /\ discovered' = auto_discover_pdfs(status, tree)
            /\ StartLoop(SelectFiles(TRUE, auto_discover_pdfs(status, tree)))
    /\ UNCHANGED <<cleanVars, classVars>>

\* lines 194-196 without use_auto_discover
LocateManual ==
    /\ pc = "start"
    /\ ~use_auto_discover
    /\ StartLoop(SelectFiles(FALSE, <<>>))
    /\ UNCHANGED <<api, discover_calls, discovered, cleanVars, classVars>>

\* an exception reaches the handler of lines 222-225
Raise(kind, opened) ==
    /\ outcome' = [outcome EXCEPT ![idx] = kind]
    /\ open_docs' = open_docs + opened
    /\ extraction_result' = NoResult
    /\ pc' = OnException(idx, Len(pdf_files)).pc
    /\ idx' = OnException(idx, Len(pdf_files)).idx
    /\ UNCHANGED <<use_auto_discover, api, discover_calls, discovered, pdf_files,
                   extracted_data, document_metadata, row_doc, save_calls, outputs,
                   cleanVars, classVars>>

\* line 206: download_pdf_from_github returns the bytes
DownloadOk ==
    /\ pc = "download"
    /\ pc' = "extract"
    /\ UNCHANGED <<use_auto_discover, api, discover_calls, discovered, pdf_files, idx,
                   extraction_result, extracted_data, document_metadata, row_doc, outcome,
                   open_docs, text_corpus, save_calls, outputs, cleanVars, classVars>>

\* line 206: requests.get or raise_for_status raises
DownloadFail ==
    /\ pc = "download"
    /\ Raise("fetch_failed", 0)
    /\ UNCHANGED text_corpus

\* line 207: extract_text_from_pdf opens the document, reads its n pages and closes it
ExtractOk ==
    /\ pc = "extract"
    /\ \E n \in 0..MaxPages : extraction_result' = ExtractionResult(n)
    /\ pc' = "record"
    /\ UNCHANGED <<use_auto_discover, api, discover_calls, discovered, pdf_files, idx,
                   extracted_data, document_metadata, row_doc, outcome,
                   open_docs, text_corpus, save_calls, outputs, cleanVars, classVars>>

\* line 150: fitz.open raises, no document was opened
ExtractOpenFail ==
    /\ pc = "extract"
    /\ Raise("extract_failed", 0)
    /\ UNCHANGED text_corpus

\* lines 153-163: a page raises after the document was opened; doc.close() of
\* line 165 is not reached
ExtractPageFail ==
    /\ pc = "extract"
    /\ MaxPages >= 1
    /\ Raise("extract_failed", 1)
    /\ UNCHANGED text_corpus

\* lines 209-217: the metadata record is appended
AppendMetadata ==
    /\ pc = "record"
    /\ document_metadata' =
           Append(document_metadata, MetadataRecord(pdf_files[idx], extraction_result))
    /\ pc' = "corpus"
    /\ UNCHANGED <<use_auto_discover, api, discover_calls, discovered, pdf_files, idx,
                   extraction_result, extracted_data, row_doc, outcome,
                   open_docs, text_corpus, save_calls, outputs, cleanVars, classVars>>

\* line 219: save_text_corpus writes the whole file
SaveCorpusOk ==
    /\ pc = "corpus"
    /\ text_corpus' = WriteFile(text_corpus, CorpusName(pdf_files[idx]), idx, TRUE)
    /\ pc' = "build"
    /\ UNCHANGED <<use_auto_discover, api, discover_calls, discovered, pdf_files, idx,
                   extraction_result, extracted_data, document_metadata, row_doc, outcome,
                   open_docs, save_calls, outputs, cleanVars, classVars>>

\* line 219: open() raises (no file), or a write raises (a truncated file)
SaveCorpusFail ==
    /\ pc = "corpus"
    /\ \E created \in BOOLEAN :
          text_corpus' = IF created
                         THEN WriteFile(text_corpus, CorpusName(pdf_files[idx]), idx, FALSE)
                         ELSE text_corpus
    /\ Raise("write_failed", 0)

\* line 220: build_dataset_records, the end of the iteration
BuildDatasetRecords ==
    /\ pc = "build"
    /\ extracted_data' = extracted_data \o DatasetRows(pdf_files[idx], extraction_result)
    /\ row_doc' = row_doc \o [p \in 1..Len(DatasetRows(pdf_files[idx], extraction_result)) |-> idx]
    /\ outcome' = [outcome EXCEPT ![idx] = "ok"]
    /\ extraction_result' = NoResult
    /\ pc' = Advance(idx, Len(pdf_files)).pc
    /\ idx' = Advance(idx, Len(pdf_files)).idx
    /\ UNCHANGED <<use_auto_discover, api, discover_calls, discovered, pdf_files,
                   document_metadata, open_docs, text_corpus, save_calls, outputs,
                   cleanVars, classVars>>

\* line 227: save_outputs writes the table and the metadata, then
\* create_summary_report; df['year'] of line 293 raises KeyError on the frame of
\* an empty document_metadata, after the file was opened and its header written
SaveOutputs ==
    /\ pc = "save"
    /\ save_calls' = save_calls + 1
    /\ IF document_metadata = <<>>
       THEN /\ outputs' = [written |-> {"csv", "json", "summary"}, csv |-> extracted_data,
                           json |-> document_metadata, summary |-> <<>>]
            /\ pc' = "crashed"
       ELSE /\ outputs' = [written |-> {"csv", "json", "summary"}, csv |-> extracted_data,
                           json |-> document_metadata,
                           summary |-> <<SummaryReport(document_metadata)>>]
            /\ pc' = "done"
    /\ UNCHANGED <<use_auto_discover, api, discover_calls, discovered, pdf_files, idx,
                   extraction_result, extracted_data, document_metadata, row_doc, outcome,
                   open_docs, text_corpus, cleanVars, classVars>>

Next ==
    \/ LocateAuto
    \/ LocateManual
    \/ DownloadOk
    \/ DownloadFail
    \/ ExtractOk
    \/ ExtractOpenFail
    \/ ExtractPageFail
    \/ AppendMetadata
    \/ SaveCorpusOk
    \/ SaveCorpusFail
    \/ BuildDatasetRecords
    \/ SaveOutputs

Spec == Init /\ [][Next]_vars

(***************************************************************************)
(* clean_text applied twice to one string.                                 *)
(***************************************************************************)
CleanAlphabet == {"\n", " ", "\t", "a"}

CleanInputs == UNION {[1..n -> CleanAlphabet] : n \in 0..MaxLen}

InitClean ==
    /\ IdleRun
    /\ IdleClass
    /\ text_raw \in CleanInputs
    /\ text_prev = text_raw
    /\ text_out = text_raw
    /\ clean_calls = 0

\* text = self.clean_text(text), on the text the previous call returned
CleanText ==
    /\ clean_calls < 2
    /\ text_prev' = text_out
    /\ text_out' = clean_text(text_out)
    /\ clean_calls' = clean_calls + 1
    /\ UNCHANGED <<text_raw, runVars, classVars>>

NextClean == CleanText

SpecClean == InitClean /\ [][NextClean]_vars

(***************************************************************************)
(* classify_document_type applied to one filename.  A filename is the      *)
(* concatenation of pieces; each piece spells one keyword, in some case,   *)
(* or none, and no keyword arises across the joint of two pieces.          *)
(***************************************************************************)
Pieces ==
    << [text |-> <<"I","m","p","a","c","t">>,         family |-> "impact"],
       [text |-> <<"S","U","S","T","A","I","N","A","B","I","L","I","T","Y">>, family |-> "impact"],
       [text |-> <<"E","s","g">>,            family |-> "impact"],
       [text |-> <<"A","s","s","u","r","a","n","c","e">>,      family |-> "assurance"],
       [text |-> <<"P","R","O","X","Y">>,          family |-> "proxy"],
       [text |-> <<"1","0","K">>,            family |-> "10k"],
       [text |-> <<"1","0","-","k">>,           family |-> "10k"],
       [text |-> <<"C","a","r","b","o","n">>,         family |-> "carbon"],
       [text |-> <<"A","E","O","_","2","0","2","0">>,       family |-> "none"],
       [text |-> <<".","p","d","f">>,           family |-> "none"] >>

RECURSIVE Join(_)
Join(ps) == IF ps = <<>> THEN <<>> ELSE Pieces[ps[1]].text \o Join(Tail(ps))

InitClassify ==
    /\ IdleRun
    /\ IdleClean
    /\ parts \in UNION {[1..n -> 1..Len(Pieces)] : n \in 0..MaxParts}
    /\ filename = Join(parts)
    /\ label = ""

Classify ==
    /\ label = ""
    /\ label' = classify_document_type(filename)
    /\ UNCHANGED <<parts, filename, runVars, cleanVars>>

NextClassify == Classify

SpecClassify == InitClassify /\ [][NextClassify]_vars

(***************************************************************************)
(* Properties.                                                             *)
(***************************************************************************)
Terminal == pc \in {"done", "crashed"}
LoopOver == pc \in {"save", "done", "crashed"}
Docs == 1..Len(pdf_files)

\* the documents that have a record in document_metadata
HasMetadata(i) ==
    \E k \in 1..Len(document_metadata) :
        document_metadata[k].github_path = pdf_files[i].path

RowsOf(i) == {r \in 1..Len(row_doc) : row_doc[r] = i}

\* C1: a document whose fetch or extraction failed has no metadata record and no
\* row, and the failure does not stop the loop: the run leaves the loop only
\* with every document of the list fetched and processed
C1_FailedDocumentSkipped ==
    /\ pc # "crashed" \/ save_calls = 1
    /\ \A i \in Docs :
         outcome[i] \in {"fetch_failed", "extract_failed"} =>
            /\ ~HasMetadata(i)
            /\ RowsOf(i) = {}
            /\ pc \notin {"start", "save", "done", "crashed"} => idx > i
            /\ LoopOver => \A j \in (i + 1)..Len(pdf_files) : outcome[j] # "pending"

C1_Witness ==
    /\ pc = "done"
    /\ \E i, j \in Docs :
         /\ i < j
         /\ outcome[i] \in {"fetch_failed", "extract_failed"}
         /\ outcome[j] = "ok" /\ RowsOf(j) # {} /\ HasMetadata(j)

\* no write to the corpus directory has failed
NoWriteFailed == \A i \in Docs : outcome[i] # "write_failed"

\* C2: whatever documents failed in fetch or extraction, and no write to disk
\* having failed, save_outputs is called once, after the last document, and it
\* completes with the table, the metadata and the summary of the successful
\* documents; the run reaches its end state
C2_SaveOutputsCompletes ==
    /\ save_calls <= 1
    /\ save_calls = 1 => \A i \in Docs : outcome[i] # "pending"
    /\ (Terminal /\ NoWriteFailed) =>
          /\ pc = "done"
          /\ save_calls = 1
          /\ outputs.written = {"csv", "json", "summary"}
          /\ outputs.csv = extracted_data
          /\ outputs.json = document_metadata
          /\ Len(outputs.json) = Cardinality({i \in Docs : outcome[i] = "ok"})
          /\ Len(outputs.summary) = 1
          /\ outputs.summary[1].total_documents = Cardinality({i \in Docs : outcome[i] = "ok"})
          /\ outputs.summary[1].total_pages = Len(extracted_data)

\* C3: no document opened by extract_text_from_pdf is left unclosed once the
\* call has returned or raised
C3_HandleReleased == open_docs = 0

\* C4: with auto-discovery, auto_discover_pdfs is called first and a failure in
\* it gives the empty list; an empty discovery makes the run use the structured
\* list, so the list processed is never empty; without auto-discovery the
\* structured list is used and auto_discover_pdfs is not called
C4_LocatorFallback ==
    pc # "start" =>
       /\ Len(pdf_files) > 0
       /\ use_auto_discover =>
             /\ discover_calls = 1
             /\ api # "not_called"
             /\ api \in {"network_error", "parse_error"} => discovered = <<>>
             /\ discovered = <<>> => pdf_files = define_pdf_files_structure1
             /\ discovered # <<>> => pdf_files = discovered
       /\ ~use_auto_discover =>
             /\ discover_calls = 0
             /\ api = "not_called"
             /\ pdf_files = define_pdf_files_structure1

C4_Witness ==
    /\ pc = "done"
    /\ use_auto_discover
    /\ api = "network_error"
    /\ Len(pdf_files) >= 2
    /\ \A i \in Docs : outcome[i] = "ok"

\* the position in pdf_files of the document of a remote path
PathIndex(path) == CHOOSE i \in Docs : pdf_files[i].path = path

\* C5: the rows of extracted_data are in the order the documents were processed
\* and, within a document, in page order with page numbers 1, 2, ..., total_pages;
\* rows of two documents are not interleaved; document_metadata is in processing
\* order too
C5_RowOrder ==
    /\ Len(row_doc) = Len(extracted_data)
    /\ \A p \in 1..Len(extracted_data) :
         LET row == extracted_data[p]
             d   == row_doc[p]
         IN /\ d \in Docs
            /\ row.year = pdf_files[d].year
            /\ row.filename = pdf_files[d].filename
            /\ row.document_type = pdf_files[d].doc_type
            /\ p > 1 => row_doc[p - 1] <= d
            /\ row.page_number =
                  IF p = 1 \/ row_doc[p - 1] # d THEN 1
                  ELSE extracted_data[p - 1].page_number + 1
            /\ (p = Len(extracted_data) \/ row_doc[p + 1] # d) =>
                  \E k \in 1..Len(document_metadata) :
                      /\ document_metadata[k].github_path = pdf_files[d].path
                      /\ document_metadata[k].total_pages = row.page_number
    /\ \A k \in 1..Len(document_metadata) :
         /\ \E i \in Docs : pdf_files[i].path = document_metadata[k].github_path
         /\ k > 1 => PathIndex(document_metadata[k - 1].github_path)
                        < PathIndex(document_metadata[k].github_path)

C5_Witness ==
    /\ pc = "done"
    /\ \E p \in 1..(Len(extracted_data) - 2) :
         /\ row_doc[p] = row_doc[p + 1]
         /\ row_doc[p + 1] < row_doc[p + 2]
         /\ extracted_data[p].page_number = 1
         /\ extracted_data[p + 1].page_number = 2
         /\ extracted_data[p + 2].page_number = 1

\* C6: clean_text is idempotent: cleaning a cleaned string returns it unchanged
C6_CleanIdempotent == clean_calls = 2 => text_out = text_prev

C6_Witness ==
    /\ clean_calls = 2
    /\ text_raw = <<"a", "\n", "\n", "\n", "a">>
    /\ text_out = <<"a", "\n", "\n", "a">>

\* the filename holds a piece of the keyword family
Has(fam) == \E i \in 1..Len(parts) : Pieces[parts[i]].family = fam

\* C7: classify_document_type is total and applies its keyword rules without
\* regard to case, the first rule that matches winning: impact, sustainability
\* or esg give Impact Report whatever else the name holds, then assurance, proxy,
\* 10k or 10-k, carbon; a name with no keyword gives Other
C7_ClassifierPriority ==
    label # "" =>
       /\ label \in {"Impact Report", "Assurance Statement", "Proxy Statement",
                     "Form 10-K", "Carbon Disclosure", "Other"}
       /\ Has("impact") => label = "Impact Report"
       /\ (~Has("impact") /\ Has("assurance")) => label = "Assurance Statement"
       /\ (~Has("impact") /\ ~Has("assurance") /\ Has("proxy")) => label = "Proxy Statement"
       /\ (~Has("impact") /\ ~Has("assurance") /\ ~Has("proxy") /\ Has("10k")) =>
             label = "Form 10-K"
       /\ (~Has("impact") /\ ~Has("assurance") /\ ~Has("proxy") /\ ~Has("10k")
             /\ Has("carbon")) => label = "Carbon Disclosure"
       /\ (~Has("impact") /\ ~Has("assurance") /\ ~Has("proxy") /\ ~Has("10k")
             /\ ~Has("carbon")) => label = "Other"

C7_Witness ==
    /\ label = "Impact Report"
    /\ Has("assurance")
    /\ filename = <<"A","s","s","u","r","a","n","c","e","S","U","S","T","A","I","N","A","B","I","L","I","T","Y">>

\* the filename without its trailing extension
StripExtension(name) ==
    IF IsPdfPath(name) THEN SubSeq(name, 1, Len(name) - 4) ELSE name

ExpectedCorpusName(pdf_info) ==
    IntToStr(pdf_info.year) \o <<"_">> \o SubUnsafe(StripExtension(pdf_info.filename))
        \o <<"_","f","u","l","l","t","e","x","t",".","t","x","t">>

\* C8: the corpus file of a document is <year>_<stem>_fulltext.txt, the stem
\* being the filename without its trailing extension, nothing else removed, and
\* with every character outside [A-Za-z0-9_-] replaced by _
C8_CorpusFileName ==
    \A f \in text_corpus : f.name = ExpectedCorpusName(pdf_files[f.owner])

\* the documents whose save_text_corpus has completed
CorpusWritten == {i \in Docs : outcome[i] = "ok" \/ (pc = "build" /\ idx = i)}

\* C9: the remote paths of the list being pairwise distinct, no two documents
\* write the same corpus file: the complete corpus files are as many as the
\* documents whose corpus write succeeded, each still holding what its document
\* wrote
C9_OneFilePerDocument ==
    (\A i, j \in Docs : i # j => pdf_files[i].path # pdf_files[j].path) =>
        /\ \A i, j \in CorpusWritten :
              i # j => CorpusName(pdf_files[i]) # CorpusName(pdf_files[j])
        /\ Cardinality({f \in text_corpus : f.complete}) = Cardinality(CorpusWritten)
        /\ \A i \in CorpusWritten : \E f \in text_corpus : f.owner = i /\ f.complete

\* C10: between per-document steps and at the end of the run, a document has a
\* metadata record exactly when its rows are in extracted_data, as many as the
\* record's total_pages; the total_pages of document_metadata add up to
\* len(extracted_data)
C10_MetadataMatchesRows ==
    pc \in {"download", "save", "done", "crashed"} =>
        /\ SumPages(document_metadata) = Len(extracted_data)
        /\ \A i \in Docs : ~HasMetadata(i) => RowsOf(i) = {}
        /\ \A k \in 1..Len(document_metadata) :
              Cardinality(RowsOf(PathIndex(document_metadata[k].github_path)))
                 = document_metadata[k].total_pages

====
